---- MODULE Spec2Model ----
(***************************************************************************)
(* Model of shibukawa/mockconn (src/mock.go): a scripted net.Conn double.  *)
(* A Conn owns a scenario (a list of Read / Write / Close actions), a      *)
(* cursor `current` into it, the list `errors` of recorded diagnostics and *)
(* the flag `closed`.  Conn.Read, Conn.Write, Conn.Close and Conn.Verify   *)
(* are modelled as operators on a connection record, translated branch by  *)
(* branch from the Go code, and as one action each.                        *)
(***************************************************************************)
EXTENDS Integers, Sequences, FiniteSets, TLC

VARIABLES
    scenario,   \* Conn.scenario: sequence of actions [type, data, original]
    current,    \* Conn.current: 0-based index of the action being satisfied
    errors,     \* Conn.errors: recorded diagnostics
    closed,     \* Conn.closed
    delivered,  \* history: bytes copied into the caller's buffers, in call order
    sent,       \* history: per action, bytes accepted by successful Write calls
    failed,     \* history: some Read/Write/Close call did not return a nil error
    verified    \* history: Verify has been called

vars == <<scenario, current, errors, closed, delivered, sent, failed, verified>>

----------------------------------------------------------------------------
(* Bounds and inputs of the model *)

MaxActions == 2    \* longest scenario
MaxErrors == 1     \* stored diagnostics are capped at this many

\* "hello!!" and "good morning!!" of ExampleConn_Verify
Hello == <<104, 101, 108, 108, 111, 33, 33>>
GoodMorning == <<103, 111, 111, 100, 32, 109, 111, 114, 110, 105, 110, 103, 33, 33>>

\* the payload declared in the generated scenarios
Data == <<97, 98>>

Substrings(s) == { SubSeq(s, i, j) : i \in 1..(Len(s) + 1), j \in 0..Len(s) }

\* s with its last byte replaced by "x", a byte no declared payload holds
Flipped(s) == [s EXCEPT ![Len(s)] = 120]

----------------------------------------------------------------------------
(* Action types and constructors (src/mock.go 13-120) *)

ReadActionType == "Read"
WriteActionType == "Write"
CloseActionType == "Close"
nullActionType == "null"

ReadAct(data) == [type |-> ReadActionType, data |-> data, original |-> data]
WriteAct(data) == [type |-> WriteActionType, data |-> data, original |-> data]
CloseAct == [type |-> CloseActionType, data |-> <<>>, original |-> <<>>]
nullAction_close == [type |-> CloseActionType, data |-> <<>>, original |-> <<>>]

nullAction == [type |-> nullActionType, data |-> <<>>, original |-> <<>>]

getAction(scn, i) == IF i < Len(scn) THEN scn[i + 1] ELSE nullAction

----------------------------------------------------------------------------
(* Errors.  An error value is a record: the format string of its message   *)
(* and the values formatted into it.                                        *)

Nil == [msg |-> "nil", idx |-> 0, total |-> 0, data |-> <<>>, actual |-> <<>>]
AlreadyClosed == [msg |-> "already closed", idx |-> 0, total |-> 0, data |-> <<>>, actual |-> <<>>]
ScenarioError(msg, idx) == [msg |-> msg, idx |-> idx, total |-> 0, data |-> <<>>, actual |-> <<>>]
RemainedError(msg, idx, data) == [msg |-> msg, idx |-> idx, total |-> 0, data |-> data, actual |-> <<>>]
MismatchError(idx, expected, actual) ==
    [msg |-> "Write() expected=%s actual=%s", idx |-> idx, total |-> 0, data |-> expected, actual |-> actual]
UnconsumedError(n, total) ==
    [msg |-> "Unconsumed senario exists - %d/%d", idx |-> n, total |-> total, data |-> <<>>, actual |-> <<>>]

addError_noAppend(errs, e) == errs

addError(errs, e) == Append(errs, e)

----------------------------------------------------------------------------
(* Helpers for the byte-slice expressions of the code *)

Min(a, b) == IF a < b THEN a ELSE b

Drop_extra(s, n) == SubSeq(s, n + 2, Len(s))

Drop_tail(s, n) == SubSeq(s, 1, Len(s) - n)

Drop_keep(s, n) == s

Drop(s, n) == SubSeq(s, n + 1, Len(s))

Take(s, n) == SubSeq(s, 1, n)

hasData_never(a) == FALSE

hasData(a) == Len(a.data) > 0

copyLen_whole(cap, data) == Len(data)

copyLen(cap, data) == Min(cap, Len(data))

sameBytes_lengthOnly(b, data) == TRUE

sameBytes(b, data) == \A i \in 1..Len(b) : b[i] = data[i]

\* what a call hands back: the connection after it, the returned count and
\* error, the bytes copied out, the index the call acted at, and whether it
\* aborted with a runtime panic instead of returning.  A panic leaves the
\* connection as the statements before it made it; a caller that recovers
\* can go on using the connection, so the model goes on from that state.
Result(c, n, out, err, at) == [c |-> c, n |-> n, out |-> out, err |-> err, at |-> at, panic |-> FALSE]
Panic(c, at) == [c |-> c, n |-> 0, out |-> <<>>, err |-> Nil, at |-> at, panic |-> TRUE]

Fail_close(c, e) == Result([c EXCEPT !.errors = addError(@, e), !.closed = TRUE], 0, <<>>, e, c.current)

Fail_advance(c, e) == Result([c EXCEPT !.errors = addError(@, e), !.current = @ + 1], 0, <<>>, e, c.current)

Fail(c, e) == Result([c EXCEPT !.errors = addError(@, e)], 0, <<>>, e, c.current)

closedResult_ok(c) == Result(c, 0, <<>>, Nil, c.current)

closedResult(c) == Result(c, 0, <<>>, AlreadyClosed, c.current)

----------------------------------------------------------------------------
(* The connection as one record, for the operators below *)

Conn == [scenario |-> scenario, current |-> current, errors |-> errors, closed |-> closed]

setData(c, i, d) == [c EXCEPT !.scenario[i + 1].data = d]

advance_stay(c) == c

advance(c) == [c EXCEPT !.current = @ + 1]

----------------------------------------------------------------------------
(* Conn.Read (src/mock.go 240-271) *)

RECURSIVE ConnRead(_, _)
ConnRead(c, cap) ==
    IF c.closed THEN closedResult(c)
    ELSE LET cur == getAction(c.scenario, c.current) IN
      CASE cur.type = ReadActionType ->
             IF hasData(cur)
             THEN LET n == copyLen(cap, cur.data) IN
                  Result(setData(c, c.current, Drop(cur.data, n)), n, Take(cur.data, n), Nil, c.current)
             ELSE IF getAction(c.scenario, c.current + 1).type = ReadActionType
                  THEN ConnRead(advance(c), cap)
                  ELSE Result(c, 0, <<>>, Nil, c.current)
        [] cur.type = WriteActionType ->
             IF Len(cur.data) = 0
             THEN \* c.current++; current = c.scenario[c.current]: the index is
                  \* out of range when the Write was the last action
                  IF c.current + 1 < Len(c.scenario)
                  THEN Result(advance(c), 0, <<>>, Nil, c.current)
                  ELSE Panic(advance(c), c.current)
             ELSE Fail(c, ScenarioError("should close, but Read() is called", c.current + 1))
        [] cur.type = CloseActionType ->
             Fail(c, ScenarioError("should close, but Read() is called", c.current + 1))
        [] OTHER -> Result(c, 0, <<>>, Nil, c.current)

----------------------------------------------------------------------------
(* Conn.Write (src/mock.go 276-314) *)

fullMatch_always(b, data) == TRUE

fullMatch_never(b, data) == FALSE

fullMatch_nonEmpty(b, data) == Len(b) > 0

fullMatch(b, data) == Len(b) = Len(data)

RECURSIVE ConnWrite(_, _)
ConnWrite(c, b) ==
    IF c.closed THEN closedResult(c)
    ELSE LET cur == getAction(c.scenario, c.current) IN
      CASE cur.type = ReadActionType ->
             IF hasData(cur)
             THEN Fail(c, ScenarioError("should read data, but Write() is called", c.current + 1))
             ELSE ConnWrite(advance(c), b)
        [] cur.type = WriteActionType ->
             IF Len(b) <= Len(cur.data)
             THEN IF ~sameBytes(b, cur.data)
                  THEN Fail(c, MismatchError(c.current + 1, cur.data, b))
                  ELSE IF fullMatch(b, cur.data)
                       THEN Result(advance(c), Len(b), <<>>, Nil, c.current)
                       ELSE Result(setData(c, c.current, Drop(cur.data, Len(b))), Len(b), <<>>, Nil, c.current)
             ELSE Fail(c, MismatchError(c.current + 1, cur.data, b))
        [] cur.type = CloseActionType ->
             Fail(c, ScenarioError("should close, but Write() is called", c.current + 1))
        [] OTHER -> Result(c, 0, <<>>, Nil, c.current)

----------------------------------------------------------------------------
(* Conn.Close (src/mock.go 318-338) *)

markClosed_forgot(c) == c

markClosed(c) == [c EXCEPT !.closed = TRUE]

RECURSIVE ConnClose(_)
ConnClose(c) ==
    IF c.closed THEN closedResult(c)
    ELSE LET cur == getAction(c.scenario, c.current) IN
      CASE cur.type = ReadActionType ->
             IF hasData(cur)
             THEN Fail(c, ScenarioError("should read data, but Close() is called", c.current + 1))
             ELSE ConnClose(advance(c))
        [] cur.type = WriteActionType ->
             Fail(c, ScenarioError("should write data, but Close() is called", c.current + 1))
        [] cur.type = CloseActionType ->
             Result(markClosed(advance(c)), 0, <<>>, Nil, c.current)
        [] OTHER -> Result(markClosed(c), 0, <<>>, Nil, c.current)

----------------------------------------------------------------------------
(* Conn.Verify (src/mock.go 168-217) *)

unconsumed_atEnd(c) == c.current <= Len(c.scenario)

unconsumed_never(c) == FALSE

unconsumed(c) == c.current < Len(c.scenario)

restoreErrors_keep(baseline, errs) == errs

restoreErrors(baseline, errs) == baseline

ConnVerify(c) ==
    LET baseline == c.errors
        cur == getAction(c.scenario, c.current)
        c1 == CASE cur.type = ReadActionType ->
                     advance(IF hasData(cur)
                             THEN [c EXCEPT !.errors = addError(@,
                                     RemainedError("there is remained data to read: %s", c.current + 1, cur.data))]
                             ELSE c)
                [] cur.type = WriteActionType ->
                     advance([c EXCEPT !.errors = addError(@,
                               RemainedError("there is remained data to write: %s", c.current + 1, cur.data))])
                [] OTHER -> c
        c2 == IF unconsumed(c1)
              THEN [c1 EXCEPT !.errors = addError(@, UnconsumedError(Len(c1.scenario) - c1.current, Len(c1.scenario)))]
              ELSE c1
    IN  [c |-> [c2 EXCEPT !.errors = restoreErrors(baseline, c2.errors)], result |-> c2.errors]

----------------------------------------------------------------------------
(* Conn.SetExpectedActions (src/mock.go 162-165) *)

ConnSetExpectedActions(c, scn) == [c EXCEPT !.scenario = scn]

----------------------------------------------------------------------------
(* Inputs *)

Payloads == {<<>>, Data}

ActionSet == {ReadAct(d) : d \in Payloads} \cup {WriteAct(d) : d \in Payloads} \cup {CloseAct}

ExampleScenario == <<WriteAct(Hello), CloseAct>>

Scenarios == (UNION { [1..k -> ActionSet] : k \in 0..MaxActions }) \cup {ExampleScenario}

Caps == {0, 1, 3, 100}

\* submitted payloads: every prefix of every remainder of Data, each of them
\* with a wrong last byte, and the example's submission (longer than any)
WriteInputs ==
    Substrings(Data) \cup { Flipped(s) : s \in Substrings(Data) \ {<<>>} } \cup {GoodMorning}

----------------------------------------------------------------------------
(* The state machine: New, one SetExpectedActions, then any calls.  What   *)
(* a call returns is the result of its operator on the state it is made in. *)

Init ==
    /\ scenario \in Scenarios
    /\ current = 0
    /\ errors = <<>>
    /\ closed = FALSE
    /\ delivered = <<>>
    /\ sent = [i \in 1..Len(scenario) |-> <<>>]
    /\ failed = FALSE
    /\ verified = FALSE

Install(c) ==
    /\ scenario' = c.scenario
    /\ current' = c.current
    /\ errors' = c.errors
    /\ closed' = c.closed

Read(cap) ==
    LET r == ConnRead(Conn, cap) IN
    /\ Len(r.c.errors) <= MaxErrors
    /\ Install(r.c)
    /\ delivered' = delivered \o r.out
    /\ failed' = (failed \/ r.err # Nil \/ r.panic)
    /\ UNCHANGED <<sent, verified>>

Write(b) ==
    LET r == ConnWrite(Conn, b) IN
    /\ Len(r.c.errors) <= MaxErrors
    /\ Install(r.c)
    /\ sent' = IF r.err = Nil /\ getAction(scenario, r.at).type = WriteActionType
               THEN [sent EXCEPT ![r.at + 1] = @ \o b]
               ELSE sent
    /\ failed' = (failed \/ r.err # Nil)
    /\ UNCHANGED <<delivered, verified>>

Close ==
    LET r == ConnClose(Conn) IN
    /\ Len(r.c.errors) <= MaxErrors
    /\ Install(r.c)
    /\ failed' = (failed \/ r.err # Nil)
    /\ UNCHANGED <<delivered, sent, verified>>

Verify ==
    LET r == ConnVerify(Conn) IN
    /\ Install(r.c)
    /\ verified' = TRUE
    /\ UNCHANGED <<delivered, sent, failed>>

Next ==
    \/ \E cap \in Caps : Read(cap)
    \/ \E b \in WriteInputs : Write(b)
    \/ Close
    \/ Verify

Spec == Init /\ [][Next]_vars

----------------------------------------------------------------------------
(* Receive-only use: a scenario of Read actions, drained by Read calls into *)
(* buffers of capacity at least 1.  The caller keeps reading.               *)

RecvPayloads == {<<>>, Data, Hello, GoodMorning}

RecvScenarios == UNION { [1..k -> {ReadAct(d) : d \in RecvPayloads}] : k \in 0..MaxActions }

InitRecv ==
    /\ scenario \in RecvScenarios
    /\ current = 0
    /\ errors = <<>>
    /\ closed = FALSE
    /\ delivered = <<>>
    /\ sent = [i \in 1..Len(scenario) |-> <<>>]
    /\ failed = FALSE
    /\ verified = FALSE

NextRecv == \E cap \in Caps \ {0} : Read(cap)

SpecRecv == InitRecv /\ [][NextRecv]_vars /\ WF_vars(NextRecv)

----------------------------------------------------------------------------
(* Use with re-installation: SetExpectedActions may be called again at any  *)
(* time, with freshly constructed actions.                                  *)

Reinstalls == {<<>>, <<ReadAct(Data)>>, <<WriteAct(Data), CloseAct>>}

SetExpectedActions(scn) ==
    /\ Install(ConnSetExpectedActions(Conn, scn))
    /\ sent' = [i \in 1..Len(scn) |-> <<>>]
    /\ delivered' = <<>>
    /\ UNCHANGED <<failed, verified>>

NextInstall ==
    \/ \E cap \in Caps : Read(cap)
    \/ \E b \in WriteInputs : Write(b)
    \/ Close
    \/ Verify
    \/ \E scn \in Reinstalls : SetExpectedActions(scn)

SpecInstall == Init /\ [][NextInstall]_vars

----------------------------------------------------------------------------
(* Vocabulary of the properties *)

IsPrefix(p, s) == Len(p) <= Len(s) /\ SubSeq(s, 1, Len(p)) = p

Last(s) == s[Len(s)]

Indexes == 0..(Len(scenario) - 1)

RECURSIVE ConcatOriginal(_, _)
ConcatOriginal(scn, i) == IF i >= Len(scn) THEN <<>> ELSE scn[i + 1].original \o ConcatOriginal(scn, i + 1)

RECURSIVE ConcatData(_, _)
ConcatData(scn, i) == IF i >= Len(scn) THEN <<>> ELSE scn[i + 1].data \o ConcatData(scn, i + 1)

\* the index a Write or Close call made with the cursor at i acts on: the
\* first action at or after i that is not a Read action with nothing left
RECURSIVE SkipDrained(_, _)
SkipDrained(scn, i) ==
    IF getAction(scn, i).type = ReadActionType /\ getAction(scn, i).data = <<>>
    THEN SkipDrained(scn, i + 1)
    ELSE i

\* action i still has bytes to deliver (Read) or to be matched (Write)
Unsatisfied(i) ==
    \/ scenario[i + 1].type = ReadActionType /\ scenario[i + 1].data # <<>>
    \/ scenario[i + 1].type = WriteActionType /\ sent[i + 1] # scenario[i + 1].original

MismatchMsg == "Write() expected=%s actual=%s"

VerifyMsgs == {"there is remained data to read: %s", "there is remained data to write: %s",
               "Unconsumed senario exists - %d/%d"}

\* b is longer than r or differs from it at some position
Diverges(b, r) == Len(b) > Len(r) \/ \E k \in 1..Len(b) : b[k] # r[k]

----------------------------------------------------------------------------
(* C1: a Write action's payload submitted in consecutive chunks: every      *)
(* chunk (a prefix of what is left to match) is accepted with its length,   *)
(* no error and no diagnostic, and the cursor moves past the action in the  *)
(* call at which the bytes accepted so far make up the declared payload,    *)
(* not before.                                                              *)
C1_ChunkedSend ==
    ~closed =>
      LET i == SkipDrained(scenario, current)
          a == getAction(scenario, i)
      IN  a.type = WriteActionType =>
            /\ sent[i + 1] \o a.data = a.original
            /\ \A b \in WriteInputs :
                 IsPrefix(b, a.data) =>
                   LET r == ConnWrite(Conn, b) IN
                   /\ r.n = Len(b)
                   /\ r.err = Nil
                   /\ r.c.errors = errors
                   /\ r.c.current \in {i, i + 1}
                   /\ (r.c.current = i + 1) <=> (sent[i + 1] \o b = a.original)

\* a first chunk "a" of "ab" has been accepted and "b" is still to come
C1_Witness ==
    /\ ~closed /\ errors = <<>> /\ current < Len(scenario)
    /\ scenario[current + 1].type = WriteActionType
    /\ scenario[current + 1].original = Data
    /\ sent[current + 1] = <<97>>
    /\ scenario[current + 1].data = <<98>>

----------------------------------------------------------------------------
(* C2: on a scenario of Read actions only, read with buffers of capacity    *)
(* at least 1: the bytes delivered so far followed by the bytes still held  *)
(* by the actions are the declared payloads in declared order, no call      *)
(* fails or records a diagnostic, everything is delivered eventually, and   *)
(* from then on every Read call returns 0 bytes and a nil error.            *)
C2_Safe ==
    /\ delivered \o ConcatData(scenario, 0) = ConcatOriginal(scenario, 0)
    /\ IsPrefix(delivered, ConcatOriginal(scenario, 0))
    /\ errors = <<>> /\ ~failed
    /\ \A cap \in Caps \ {0} :
         LET r == ConnRead(Conn, cap) IN
         /\ r.err = Nil /\ ~r.panic /\ r.c.errors = <<>>
         /\ delivered = ConcatOriginal(scenario, 0) => r.n = 0 /\ r.out = <<>>

C2_ReceiveDrain == []C2_Safe /\ <>[](delivered = ConcatOriginal(scenario, 0))

\* two adjacent Read actions with data, both delivered, the cursor on the second
C2_Witness ==
    /\ Len(scenario) = 2 /\ current = 1
    /\ scenario[1].original = Data /\ scenario[2].original = Hello
    /\ delivered = Data \o Hello

----------------------------------------------------------------------------
(* C3: with a Write action at the cursor, a Write call whose bytes are      *)
(* longer than the bytes left to match or differ from them at some          *)
(* position returns an error, appends exactly that one payload-mismatch     *)
(* diagnostic (expected = bytes left, actual = bytes submitted), leaves the *)
(* cursor and the action's bytes as they were, and a Write call with        *)
(* exactly the bytes left then succeeds and advances the cursor.            *)
C3_MismatchKeepsCursor ==
    (~closed /\ getAction(scenario, current).type = WriteActionType) =>
      LET a == getAction(scenario, current) IN
      \A b \in WriteInputs :
        Diverges(b, a.data) =>
          LET r == ConnWrite(Conn, b)
              again == ConnWrite(r.c, a.data)
          IN  /\ r.err = MismatchError(current + 1, a.data, b)
              /\ r.n = 0
              /\ r.c.errors = Append(errors, r.err)
              /\ r.c.current = current
              /\ r.c.scenario = scenario
              /\ again.err = Nil
              /\ again.n = Len(a.data)
              /\ again.c.current = current + 1
              /\ again.c.errors = r.c.errors

\* a diverging submission has been recorded and its Write action is still
\* at the cursor with the same bytes left
C3_Witness ==
    /\ ~closed /\ errors # <<>> /\ current < Len(scenario)
    /\ Last(errors).msg = MismatchMsg
    /\ Last(errors).idx = current + 1
    /\ scenario[current + 1].type = WriteActionType
    /\ scenario[current + 1].data = Last(errors).data
    /\ Last(errors).data = Data
    /\ Last(errors).actual = <<97, 120>>

----------------------------------------------------------------------------
(* C4: once closed is true it stays true, and every Read, Write and Close   *)
(* call made then returns the already-closed error and leaves the cursor,   *)
(* the actions' bytes and the stored diagnostics unchanged.                 *)
Rejected(r) ==
    /\ r.err = AlreadyClosed
    /\ r.n = 0
    /\ r.c = Conn

C4_ClosedRejectsAll ==
    closed =>
      /\ \A cap \in Caps : Rejected(ConnRead(Conn, cap))
      /\ \A b \in WriteInputs : Rejected(ConnWrite(Conn, b))
      /\ Rejected(ConnClose(Conn))

C4_ClosedLatch == [][closed => closed']_vars /\ []C4_ClosedRejectsAll

\* closed, and a later call has failed without leaving a diagnostic
C4_Witness ==
    /\ closed /\ failed /\ errors = <<>>
    /\ \A i \in Indexes : ~(scenario[i + 1].type = WriteActionType /\ scenario[i + 1].original = <<>>)
    /\ current < Len(scenario)

----------------------------------------------------------------------------
(* C5 as claimed: on a connection that is not closed, whenever some         *)
(* declared Read or Write action anywhere in the scenario is unsatisfied, a *)
(* Close call returns an error and leaves closed false.                     *)
C5_AnyUnsatisfiedFailsClose ==
    (~closed /\ \E j \in Indexes : Unsatisfied(j)) =>
      LET r == ConnClose(Conn) IN r.err # Nil /\ ~r.c.closed

(* C5, amended: on a connection that is not closed, whenever some declared  *)
(* Read or Write action at or after the cursor is unsatisfied and no Close  *)
(* action lies between the cursor and it, a Close call returns an error,    *)
(* records it, and leaves closed false.                                     *)
C5_PendingFailsClose ==
    (~closed /\ \E j \in Indexes :
                  /\ j >= current
                  /\ Unsatisfied(j)
                  /\ \A k \in current..(j - 1) : scenario[k + 1].type # CloseActionType) =>
      LET r == ConnClose(Conn) IN
      /\ r.err # Nil
      /\ r.err # AlreadyClosed
      /\ ~r.c.closed

\* a Close call made in front of an unread Read action has failed
C5_Witness ==
    /\ ~closed /\ errors # <<>> /\ current < Len(scenario)
    /\ Last(errors).msg = "should read data, but Close() is called"
    /\ Last(errors).idx = current + 1
    /\ scenario[current + 1].type = ReadActionType
    /\ scenario[current + 1].data = Data

----------------------------------------------------------------------------
(* C6: scenario [Write("hello!!"), Close]: Write("good morning!!") fails    *)
(* with the payload mismatch (expected "hello!!", actual "good              *)
(* morning!!") and the cursor stays 0; Verify then returns exactly that     *)
(* mismatch, the remained-data-to-write record for "hello!!" at scenario    *)
(* 1, and an unconsumed-scenario record reading 2/2.                        *)
ExampleMismatch == MismatchError(1, Hello, GoodMorning)

C6_ExampleVerify ==
    /\ (scenario = ExampleScenario /\ current = 0 /\ errors = <<>> /\ ~closed) =>
         LET r == ConnWrite(Conn, GoodMorning) IN
         /\ r.err = ExampleMismatch
         /\ r.c.current = 0
         /\ r.c.errors = <<ExampleMismatch>>
    /\ (scenario = ExampleScenario /\ current = 0 /\ errors = <<ExampleMismatch>> /\ ~closed) =>
         ConnVerify(Conn).result =
           << ExampleMismatch,
              RemainedError("there is remained data to write: %s", 1, Hello),
              UnconsumedError(2, 2) >>

----------------------------------------------------------------------------
(* C7 as claimed: if no Read, Write or Close call has failed, a Close call  *)
(* has succeeded and no Read or Write action is unsatisfied, Verify         *)
(* returns an empty list.                                                   *)
C7_CleanRunVerifiesEmpty ==
    (~failed /\ closed /\ \A j \in Indexes : ~Unsatisfied(j)) =>
      ConnVerify(Conn).result = <<>>

(* C7, amended: if no Read, Write or Close call has failed, a Close call    *)
(* has succeeded, no Read or Write action is unsatisfied and the cursor is  *)
(* at the end of the scenario, Verify returns an empty list.                *)
C7_CleanRunAtEndVerifiesEmpty ==
    (~failed /\ closed /\ current >= Len(scenario) /\ \A j \in Indexes : ~Unsatisfied(j)) =>
      ConnVerify(Conn).result = <<>>

\* [Write("ab"), Close] written in full, closed and verified, nothing failed
C7_Witness ==
    /\ ~failed /\ closed /\ verified /\ errors = <<>>
    /\ Len(scenario) = 2 /\ current = 2
    /\ scenario[1].type = WriteActionType /\ sent[1] = Data
    /\ scenario[2].type = CloseActionType

----------------------------------------------------------------------------
(* C8: before Verify has ever been called, whenever some declared action    *)
(* has not been performed (a Read action with undelivered bytes, a Write    *)
(* action with unmatched bytes, a Close action at or after the cursor),     *)
(* Verify returns a non-empty list.                                         *)
Unperformed(j) ==
    \/ Unsatisfied(j)
    \/ scenario[j + 1].type = CloseActionType /\ j >= current

C8_FirstVerifyReportsOmission ==
    (~verified /\ \E j \in Indexes : Unperformed(j)) =>
      ConnVerify(Conn).result # <<>>

\* Verify has run on a connection with no failure behind it and has moved
\* the cursor past an action that was never performed
C8_Witness ==
    /\ verified /\ ~failed /\ errors = <<>>
    /\ \E j \in Indexes : j < current /\ Unsatisfied(j)

----------------------------------------------------------------------------
(* C9: on a connection that is not closed, a Read, Write or Close call      *)
(* returns an error exactly when it appends one diagnostic, which is the    *)
(* error it returns; a call that returns nil appends none; on a closed      *)
(* connection the error is the already-closed one and nothing is appended.  *)
Recorded(r) ==
    /\ r.err # AlreadyClosed
    /\ r.err # Nil => r.c.errors = Append(errors, r.err)
    /\ r.err = Nil => r.c.errors = errors
    /\ (Len(r.c.errors) = Len(errors) + 1) <=> (r.err # Nil)

C9_FailureIffDiagnostic ==
    /\ ~closed =>
         /\ \A cap \in Caps : Recorded(ConnRead(Conn, cap))
         /\ \A b \in WriteInputs : Recorded(ConnWrite(Conn, b))
         /\ Recorded(ConnClose(Conn))
    /\ closed =>
         /\ \A cap \in Caps : ConnRead(Conn, cap).err = AlreadyClosed /\ ConnRead(Conn, cap).c.errors = errors
         /\ \A b \in WriteInputs : ConnWrite(Conn, b).err = AlreadyClosed /\ ConnWrite(Conn, b).c.errors = errors
         /\ ConnClose(Conn).err = AlreadyClosed /\ ConnClose(Conn).c.errors = errors

\* one call has failed on an open connection and left its one diagnostic
C9_Witness ==
    /\ ~closed /\ ~verified /\ failed
    /\ Len(errors) = 1
    /\ errors[1].msg = "should close, but Read() is called"

----------------------------------------------------------------------------
(* C10: Verify returns the stored diagnostics followed by the ones it       *)
(* synthesizes and leaves the stored list as it was, so no stored           *)
(* diagnostic is ever one that a Verify call synthesized.                   *)
C10_VerifyRestoresBaseline ==
    LET r == ConnVerify(Conn) IN
    /\ r.c.errors = errors
    /\ IsPrefix(errors, r.result)
    /\ \A k \in (Len(errors) + 1)..Len(r.result) : r.result[k].msg \in VerifyMsgs
    /\ \A k \in 1..Len(errors) : errors[k].msg \notin VerifyMsgs

\* Verify has run with a stored diagnostic as baseline and would again
\* synthesize diagnostics after it
C10_Witness ==
    /\ verified /\ Len(errors) = 1
    /\ Len(ConnVerify(Conn).result) > Len(errors)

----------------------------------------------------------------------------
(* C11: installing a scenario on a connection whose cursor has already      *)
(* advanced replaces the scenario and puts the cursor back to 0, so that    *)
(* the next call is checked against the first action of the new scenario.   *)
(* SetExpectedActions assigns the scenario only: the cursor keeps its       *)
(* value, and this statement is violated.                                   *)

C11_ReinstallResetsCursor ==
    current > 0 =>
        \A scn \in Reinstalls :
            LET c2 == ConnSetExpectedActions(Conn, scn)
            IN  /\ c2.scenario = scn
                /\ c2.current = 0

----------------------------------------------------------------------------
(* C12: when the scenario's only action is a Receive with non-empty data    *)
(* of which nothing has been read, Close fails and the Verify that follows  *)
(* returns exactly three diagnostics.  Verify finds two: the failure of     *)
(* Close and the bytes left in the Receive; the cursor is advanced before   *)
(* the unconsumed count is taken, so no third one is added.                 *)

LoneUnreadReceive ==
    /\ Len(scenario) = 1
    /\ scenario[1].type = ReadActionType
    /\ scenario[1].data # <<>>
    /\ scenario[1].data = scenario[1].original
    /\ current = 0
    /\ errors = <<>>
    /\ ~closed

C12_CloseOnUnreadThenVerifyThree ==
    LoneUnreadReceive =>
        LET r == ConnClose(Conn)
        IN  /\ r.err # Nil
            /\ Len(ConnVerify(r.c).result) = 3

----------------------------------------------------------------------------
(* C13: on a connection that is not closed, Close called with the cursor at *)
(* or past the end of the scenario (the empty scenario included) succeeds,  *)
(* records no diagnostic and sets closed, and changes nothing else.         *)

C13_CloseAtEndSucceeds ==
    (~closed /\ current >= Len(scenario)) =>
        LET r == ConnClose(Conn)
        IN  /\ ~r.panic
            /\ r.err = Nil
            /\ r.c.closed
            /\ r.c.errors = errors
            /\ r.c.current = current
            /\ r.c.scenario = scenario

C13_Witness ==
    closed /\ scenario = <<>> /\ current = 0 /\ ~failed /\ errors = <<>>

----------------------------------------------------------------------------
(* C14: Read called when the action at the cursor is a Send with nothing    *)
(* left advances the cursor past that Send and then gives the result that   *)
(* Read gives against the following action: bytes when that is a Receive    *)
(* with data, a diagnostic and a failure when it is a Close or a Send with  *)
(* unmatched bytes.  Read advances the cursor but does not look at the      *)
(* following action: it returns 0 bytes and no failure, and this statement  *)
(* is violated whenever the following action is one of those named.         *)

AtEmptySend ==
    /\ ~closed
    /\ getAction(scenario, current).type = WriteActionType
    /\ getAction(scenario, current).data = <<>>

C14_ReadRetriesAfterEmptySend ==
    (AtEmptySend /\ current + 1 < Len(scenario)) =>
        \A cap \in Caps :
            LET r == ConnRead(Conn, cap)
                e == ConnRead(advance(Conn), cap)
            IN  /\ r.panic = e.panic
                /\ r.c = e.c
                /\ r.n = e.n
                /\ r.out = e.out
                /\ r.err = e.err

----------------------------------------------------------------------------
(* C15: every Read runs to completion and returns a result, whatever the    *)
(* scenario and the cursor; in particular, when the action at the cursor is *)
(* a Send with nothing left and it is the last action, Read moves the       *)
(* cursor to the end and returns 0 bytes and no failure.  In that case Read *)
(* indexes the scenario one past its end and aborts, and this statement is  *)
(* violated.                                                                *)

C15_ReadAlwaysReturns ==
    \A cap \in Caps :
        LET r == ConnRead(Conn, cap)
        IN  /\ ~r.panic
            /\ (AtEmptySend /\ current + 1 = Len(scenario)) =>
                    /\ r.c.current = Len(scenario)
                    /\ r.n = 0
                    /\ r.err = Nil

----------------------------------------------------------------------------
(* C16: two adjacent Receive actions behave as one stream with no           *)
(* observable boundary: for all x and y and every sequence of Read calls    *)
(* with arbitrary capacities, each call's count, bytes and failure on       *)
(* [Receive(x), Receive(y)] equal those on [Receive(x \o y)].  A Read       *)
(* copies from one action only, so a buffer that reaches past the end of x  *)
(* gets the rest of x alone, and this statement is violated.                *)

\* the connection with the single action Receive(x \o y) after the same
\* bytes have been delivered
Merged ==
    LET xy == ConcatOriginal(scenario, 0)
    IN  [scenario |-> << [type |-> ReadActionType,
                          data |-> SubSeq(xy, Len(delivered) + 1, Len(xy)),
                          original |-> xy] >>,
         current |-> 0, errors |-> errors, closed |-> closed]

C16_AdjacentReceivesAsOne ==
    Len(scenario) = 2 =>
        \A cap \in Caps :
            LET r == ConnRead(Conn, cap)
                m == ConnRead(Merged, cap)
            IN  /\ r.n = m.n
                /\ r.out = m.out
                /\ r.err = m.err

(* C16, as it holds: two adjacent Receive actions deliver the same byte     *)
(* stream as the one Receive of their concatenation, and no Read fails, but *)
(* a Read never delivers bytes of both actions: with capacity cap it        *)
(* delivers Min(cap, bytes left in the first action that has any), which is *)
(* a prefix of what the single Receive delivers at the same position of the *)
(* stream, and equal to it when cap does not reach past that action or that *)
(* action is the last one.                                                  *)

\* the index (from 1) of the first action with bytes left, 0 when none has
Draining ==
    IF \E k \in 1..Len(scenario) : scenario[k].data # <<>>
    THEN CHOOSE k \in 1..Len(scenario) :
            /\ scenario[k].data # <<>>
            /\ \A j \in 1..(k - 1) : scenario[j].data = <<>>
    ELSE 0

C16_AdjacentReceivesSameStream ==
    Len(scenario) = 2 =>
        \A cap \in Caps :
            LET r == ConnRead(Conn, cap)
                m == ConnRead(Merged, cap)
                left == IF Draining = 0 THEN 0 ELSE Len(scenario[Draining].data)
            IN  /\ ~r.panic
                /\ r.err = Nil /\ m.err = Nil
                /\ r.n = Len(r.out)
                /\ r.n = IF cap < left THEN cap ELSE left
                /\ IsPrefix(r.out, m.out)
                /\ (cap <= left \/ Draining = Len(scenario)) =>
                        (r.out = m.out /\ r.n = m.n)

C16_Witness ==
    /\ Len(scenario) = 2
    /\ scenario[1].original = Data
    /\ scenario[1].data = <<>>
    /\ scenario[2].original = Hello
    /\ scenario[2].data = Hello
    /\ delivered = Data

----------------------------------------------------------------------------
(* C17: Verify advances the cursor by exactly one when the action at the    *)
(* cursor is a Receive with bytes left or a Send, and leaves it unchanged   *)
(* in every other case (a drained Receive, a Close, the end of the          *)
(* scenario); it never changes any action's remaining bytes or the closed   *)
(* flag.  Verify also steps over a drained Receive, and this statement is   *)
(* violated.                                                                *)

C17_VerifyAdvancesOnLeftoverOnly ==
    LET cur == getAction(scenario, current)
        v == ConnVerify(Conn).c
    IN  /\ v.current = IF \/ cur.type = ReadActionType /\ cur.data # <<>>
                          \/ cur.type = WriteActionType
                       THEN current + 1
                       ELSE current
        /\ v.scenario = scenario
        /\ v.closed = closed

(* C17, as it holds: Verify advances the cursor by exactly one when the     *)
(* action at the cursor is a Receive (with or without bytes left) or a      *)
(* Send, and leaves it unchanged when it is a Close or the cursor is at or  *)
(* past the end; it never changes any action's remaining bytes or the       *)
(* closed flag.                                                             *)

C17_VerifyAdvancesOnReceiveOrSend ==
    LET cur == getAction(scenario, current)
        v == ConnVerify(Conn).c
    IN  /\ v.current = IF cur.type \in {ReadActionType, WriteActionType}
                       THEN current + 1
                       ELSE current
        /\ v.scenario = scenario
        /\ v.closed = closed

C17_Witness ==
    /\ verified
    /\ ~failed
    /\ ~closed
    /\ Len(scenario) = 2
    /\ scenario[1] = [ReadAct(Data) EXCEPT !.data = <<>>]
    /\ scenario[2] = CloseAct
    /\ delivered = Data
    /\ current = 1

----------------------------------------------------------------------------
(* C18: a Read, Write or Close that returns a failure leaves the cursor,    *)
(* every action's remaining bytes and the closed flag exactly as they were  *)
(* before the call, also when the call first skipped over exhausted         *)
(* actions; its only state change is the one appended diagnostic.  Write    *)
(* and Close advance the cursor over drained Receive actions before they    *)
(* fail, and this statement is violated.                                    *)

\* the results of all the calls that can be made in the current state
ReadResults == { ConnRead(Conn, cap) : cap \in Caps }
WriteResults == { ConnWrite(Conn, b) : b \in WriteInputs }
CloseResults == { ConnClose(Conn) }

C18_FailureChangesNothingButErrors ==
    \A r \in ReadResults \cup WriteResults \cup CloseResults :
        r.err # Nil =>
            /\ r.c.current = current
            /\ r.c.scenario = scenario
            /\ r.c.closed = closed
            /\ ~closed => r.c.errors = Append(errors, r.err)

(* C18, as it holds: a Read, Write or Close that returns a failure leaves   *)
(* every action's remaining bytes and the closed flag as they were, and the *)
(* cursor at the action it failed on: where it was for Read, and past the   *)
(* drained Receive actions that Write and Close skip first.  On a           *)
(* connection that is not closed the only other change is the one appended  *)
(* diagnostic; a call rejected because the connection is closed changes     *)
(* nothing.                                                                 *)

C18_FailureKeepsDataAndFlag ==
    /\ \A r \in ReadResults \cup WriteResults \cup CloseResults :
          r.err # Nil =>
              /\ r.c.scenario = scenario
              /\ r.c.closed = closed
              /\ closed => r.c = Conn
              /\ ~closed => r.c.errors = Append(errors, r.err)
    /\ \A r \in ReadResults :
          r.err # Nil => r.c.current = current
    /\ \A r \in WriteResults \cup CloseResults :
          (r.err # Nil /\ ~closed) =>
              /\ r.c.current >= current
              /\ \A k \in (current + 1)..r.c.current :
                    scenario[k].type = ReadActionType /\ scenario[k].data = <<>>
              /\ r.at = r.c.current
              /\ ~(/\ getAction(scenario, r.c.current).type = ReadActionType
                   /\ getAction(scenario, r.c.current).data = <<>>)

C18_Witness ==
    /\ scenario = <<ReadAct(<<>>), CloseAct>>
    /\ current = 1
    /\ failed
    /\ ~closed
    /\ ~verified
    /\ Len(errors) = 1
    /\ errors[1].msg = "should close, but Write() is called"

----------------------------------------------------------------------------
(* C19: Read with a buffer of capacity cap against a Receive action with    *)
(* remaining bytes R, R not empty, returns Min(cap, Len(R)) and no failure, *)
(* delivers the first Min(cap, Len(R)) bytes of R, removes exactly those    *)
(* from the front of R and does not advance the cursor, even when R becomes *)
(* empty; a later Read that finds R empty and the next action not a Receive *)
(* returns 0 bytes and no failure and leaves the cursor unchanged.          *)

C19_ReadCopiesFront ==
    LET cur == getAction(scenario, current)
        R == cur.data
    IN  (~closed /\ cur.type = ReadActionType) =>
          \A cap \in Caps :
            LET r == ConnRead(Conn, cap)
                n == IF cap < Len(R) THEN cap ELSE Len(R)
            IN  /\ R # <<>> =>
                      /\ ~r.panic
                      /\ r.n = n
                      /\ r.err = Nil
                      /\ r.out = SubSeq(R, 1, n)
                      /\ r.c.scenario[current + 1].data = SubSeq(R, n + 1, Len(R))
                      /\ r.c.scenario[current + 1].original = cur.original
                      /\ \A k \in 1..Len(scenario) :
                            k # current + 1 => r.c.scenario[k] = scenario[k]
                      /\ Len(r.c.scenario) = Len(scenario)
                      /\ r.c.current = current
                      /\ r.c.errors = errors
                      /\ r.c.closed = closed
                /\ (R = <<>> /\ getAction(scenario, current + 1).type # ReadActionType) =>
                      /\ ~r.panic
                      /\ r.n = 0
                      /\ r.out = <<>>
                      /\ r.err = Nil
                      /\ r.c = Conn

\* a Receive was drained by a Read that left the cursor on it, and the
\* action after it is not a Receive
C19_Witness ==
    /\ Len(scenario) = 2
    /\ scenario[1] = [ReadAct(Data) EXCEPT !.data = <<>>]
    /\ scenario[2].type = WriteActionType
    /\ delivered = Data
    /\ current = 0
    /\ ~closed
    /\ ~failed

----------------------------------------------------------------------------
(* C20: across Read, Write and Close calls the cursor never decreases, and  *)
(* a call moves it past an action only when that action's obligation is     *)
(* discharged: a Receive with nothing left, a Send whose declared bytes     *)
(* have all been matched (or are none), or a Close action consumed by a     *)
(* Close call that succeeds.                                                *)

\* action k (from 1) is discharged once the call with result r, which
\* submitted b (<<>> for Read and Close) as a Close call or not, is over
Discharged(k, r, b, isClose) ==
    CASE scenario[k].type = ReadActionType -> r.c.scenario[k].data = <<>>
      [] scenario[k].type = WriteActionType ->
            scenario[k].original =
                IF r.err = Nil /\ k = r.at + 1 THEN sent[k] \o b ELSE sent[k]
      [] OTHER -> isClose /\ r.err = Nil /\ r.c.closed

PassesOnlyDischarged(r, b, isClose) ==
    /\ r.c.current >= current
    /\ r.c.current <= Len(scenario) \/ r.c.current = current
    /\ \A k \in (current + 1)..r.c.current : Discharged(k, r, b, isClose)

C20_PassedAreDischarged ==
    /\ \A cap \in Caps : PassesOnlyDischarged(ConnRead(Conn, cap), <<>>, FALSE)
    /\ \A b \in WriteInputs : PassesOnlyDischarged(ConnWrite(Conn, b), b, FALSE)
    /\ PassesOnlyDischarged(ConnClose(Conn), <<>>, TRUE)

C20_CursorMonotone ==
    [][current' >= current]_vars /\ []C20_PassedAreDischarged

C20_Witness ==
    /\ scenario = <<WriteAct(Data), CloseAct>>
    /\ sent[1] = Data
    /\ current = 2
    /\ closed
    /\ ~verified
    /\ ~failed

----------------------------------------------------------------------------
(* C21: in every reachable state, each Receive and Send action's original   *)
(* bytes are the bytes it was constructed with and its remaining bytes are  *)
(* a suffix of the original; across any call the new remaining bytes are a  *)
(* suffix of the old ones (they shrink from the front and never regrow).    *)

IsSuffix(p, s) == Len(p) <= Len(s) /\ SubSeq(s, Len(s) - Len(p) + 1, Len(s)) = p

C21_RemainingIsSuffix ==
    \A k \in 1..Len(scenario) :
        scenario[k].type \in {ReadActionType, WriteActionType} =>
            IsSuffix(scenario[k].data, scenario[k].original)

C21_Shrinks ==
    /\ Len(scenario') = Len(scenario)
    /\ \A k \in 1..Len(scenario) :
          /\ scenario'[k].type = scenario[k].type
          /\ scenario'[k].original = scenario[k].original
          /\ IsSuffix(scenario'[k].data, scenario[k].data)

C21_SuffixOfOriginal ==
    []C21_RemainingIsSuffix /\ [][C21_Shrinks]_vars

C21_Witness ==
    /\ Len(scenario) = 2
    /\ scenario[1] = [ReadAct(Data) EXCEPT !.data = <<98>>]
    /\ scenario[2] = [WriteAct(Data) EXCEPT !.data = <<98>>]
    /\ delivered = <<97>>
    /\ sent[2] = <<97>>

----------------------------------------------------------------------------
(* C22: the closed flag goes from false to true only in a Close call that   *)
(* returns no failure, one that reaches a Close action or the end of the    *)
(* scenario; Read, Write, Verify, SetExpectedActions and a failing Close    *)
(* never change it, and nothing sets it back to false.                      *)

C22_OnlyCloseSetsClosed ==
    /\ \A r \in ReadResults \cup WriteResults : r.c.closed = closed
    /\ ConnVerify(Conn).c.closed = closed
    /\ \A scn \in Reinstalls : ConnSetExpectedActions(Conn, scn).closed = closed
    /\ \A r \in CloseResults :
          /\ r.err # Nil => r.c.closed = closed
          /\ closed => r.c.closed
          /\ (~closed /\ r.c.closed) =>
                /\ r.err = Nil
                /\ getAction(scenario, r.at).type \in {CloseActionType, nullActionType}
          /\ (~closed /\ r.err = Nil) => r.c.closed

C22_ClosedOneWay ==
    [][closed => closed']_vars /\ []C22_OnlyCloseSetsClosed

C22_Witness ==
    /\ scenario = <<CloseAct>>
    /\ current = 1
    /\ closed
    /\ ~failed
    /\ ~verified

----------------------------------------------------------------------------
(* C23: on a connection that is not closed and whose cursor is at or past   *)
(* the end of the scenario, Write with any bytes, none or some, returns 0   *)
(* and no failure, records no diagnostic and changes no state, so that a    *)
(* later Verify does not report the extra bytes.                            *)

C23_WritePastEndIgnored ==
    (~closed /\ current >= Len(scenario)) =>
        \A b \in WriteInputs :
            LET r == ConnWrite(Conn, b)
            IN  /\ ~r.panic
                /\ r.n = 0
                /\ r.err = Nil
                /\ r.c = Conn
                /\ ConnVerify(r.c).result = errors

\* the scenario was performed to its end without a failure, and a Read,
\* Write or Verify at the end has left it so
C23_Witness ==
    /\ scenario = <<WriteAct(Data)>>
    /\ sent[1] = Data
    /\ current = 1
    /\ ~closed
    /\ ~failed
    /\ errors = <<>>
    /\ \E b \in WriteInputs : b # <<>> /\ ConnWrite(Conn, b).n = 0

----------------------------------------------------------------------------
(* C24: in every reachable state a Send action sits at the cursor with      *)
(* nothing left to match only if it was declared with no data: the Write    *)
(* that matches the last unmatched byte of a Send action advances the       *)
(* cursor in that same call, so the record that Verify adds for the Send at *)
(* the cursor carries no bytes only for a Send declared empty.              *)

C24_EmptySendWasDeclaredEmpty ==
    /\ \A k \in 1..Len(scenario) :
          (scenario[k].type = WriteActionType /\ scenario[k].data = <<>>) =>
              scenario[k].original = <<>>
    /\ ~closed =>
          \A b \in WriteInputs :
              LET r == ConnWrite(Conn, b)
                  act == getAction(scenario, r.at)
              IN  (/\ r.err = Nil
                   /\ act.type = WriteActionType
                   /\ b # <<>>
                   /\ b = act.data) => r.c.current = r.at + 1
    /\ LET result == ConnVerify(Conn).result
       IN  \A k \in (Len(errors) + 1)..Len(result) :
              (/\ result[k].msg = "there is remained data to write: %s"
               /\ result[k].data = <<>>) =>
                  scenario[result[k].idx].original = <<>>

C24_Witness ==
    /\ scenario = <<WriteAct(Data), WriteAct(<<>>)>>
    /\ sent[1] = Data
    /\ current = 1
    /\ ~failed
    /\ ~verified
    /\ ~closed

====
